---- MODULE Spec2Model ----
(***************************************************************************)
(* Model of assets/tiles/source/make_outline.py: the outline extraction    *)
(* make_outline(color) and the driver loop over COLORS.                    *)
(*                                                                         *)
(* An image is a width w, a height h and a function from the coordinates   *)
(* <<x, y>> (0 <= x < w, 0 <= y < h) to RGBA pixels <<r, g, b, a>>.        *)
(* Python's pixel[3] (the alpha channel) is the fourth element, p[4].      *)
(***************************************************************************)
EXTENDS Integers, Sequences, FiniteSets

VARIABLES ci, pc, exc, w, h, pixels, ow, oh, outline_pixels, visited, reads,
          opened, loaded, saved

vars == <<ci, pc, exc, w, h, pixels, ow, oh, outline_pixels, visited, reads,
          opened, loaded, saved>>

----------------------------------------------------------------------------
(* Program constants *)

COLORS == <<"blue", "green", "orange", "pink", "purple", "red", "yellow">>

\* The neighbour offsets of line 35, in the order the code tries them.
Offsets8 == <<<<-1, 0>>, <<1, 0>>, <<0, -1>>, <<0, 1>>,
              <<-1, -1>>, <<1, -1>>, <<-1, 1>>, <<1, 1>>>>
OffsetsHorizontal == <<<<-1, 0>>, <<1, 0>>>>
Offsets == <<<<-1, 0>>, <<1, 0>>, <<0, -1>>, <<0, 1>>>>

\* The fill colour of Image.new at line 27.
Transparent == <<0, 0, 0, 0>>

----------------------------------------------------------------------------
(* Bounds of the model and the pixel values the inputs are drawn from *)

MaxW == 3
MaxH == 3
MaxArea == 9
MaxSolidW == 4
MaxSolidH == 4
MaxSolidArea == 12
MaxDriverW == 2
MaxDriverH == 2

\* A transparent pixel that still carries colour, and two visible pixels
\* (one of them only partially opaque).
TC == <<255, 255, 255, 0>>
OP == <<200, 100, 50, 128>>
OP2 == <<10, 20, 30, 255>>

Palette == {Transparent, TC, OP}
OpaquePalette == {OP, OP2}
ShapePalette == {Transparent, OP}

Coords(ww, hh) == (0 .. ww - 1) \X (0 .. hh - 1)

\* A family of input images: every image of at most mw by mh pixels and at
\* most ma pixels in all, with pixels drawn from pal.
Family(mw, mh, ma, pal) == [mw |-> mw, mh |-> mh, ma |-> ma, pal |-> pal]

Sizes(fam) == { d \in (0 .. fam.mw) \X (0 .. fam.mh) : d[1] * d[2] <= fam.ma }

InputImages == { Family(MaxW, MaxH, MaxArea, Palette),
                 Family(MaxSolidW, MaxSolidH, MaxSolidArea, OpaquePalette) }
DriverImages == { Family(MaxDriverW, MaxDriverH, MaxDriverW * MaxDriverH, Palette) }
ShapeImages == { Family(MaxW, MaxH, MaxArea, ShapePalette) }

----------------------------------------------------------------------------
(* The pixel loop of make_outline, lines 29-41 *)

\* Image.new("RGBA", (w, h), (0, 0, 0, 0)), line 27.
NewImageSwapped(ww, hh, fill) == [w |-> hh, h |-> ww, px |-> [c \in Coords(hh, ww) |-> fill]]
NewImage(ww, hh, fill) == [w |-> ww, h |-> hh, px |-> [c \in Coords(ww, hh) |-> fill]]

\* The test `pixels[x, y][3] == 0` of lines 31 and 37.
IsTransparentWholePixel(p) == p = Transparent
IsTransparent(p) == p[4] = 0

\* The bounds test `nx < 0 or nx >= w or ny < 0 or ny >= h` of line 37.
OutOfBoundsOffByOne(nx, ny, ww, hh) == nx < 0 \/ nx > ww \/ ny < 0 \/ ny > hh
OutOfBounds(nx, ny, ww, hh) == nx < 0 \/ nx >= ww \/ ny < 0 \/ ny >= hh

\* pixels[nx, ny]: the pixel access of the image library.  A negative index
\* counts from the far side, and an index that is still out of range raises
\* IndexError, written here as the empty tuple.
IndexError == <<>>
GetPixel(px, ww, hh, nx, ny) ==
  LET rx == IF nx < 0 THEN ww + nx ELSE nx
      ry == IF ny < 0 THEN hh + ny ELSE ny
  IN IF rx < 0 \/ rx >= ww \/ ry < 0 \/ ry >= hh THEN IndexError ELSE px[<<rx, ry>>]

\* The loop of lines 35-39 from offset k on: whether the pixel is on the
\* edge, the coordinates at which `pixels` was indexed, and whether the
\* indexing raised.  `or` short-circuits, and `break` ends the loop.
RECURSIVE EdgeScan(_, _, _, _, _, _)
EdgeScan(px, ww, hh, x, y, k) ==
  IF k > Len(Offsets) THEN [edge |-> FALSE, reads |-> {}, raised |-> FALSE]
  ELSE LET nx == x + Offsets[k][1]
           ny == y + Offsets[k][2]
       IN IF OutOfBounds(nx, ny, ww, hh)
          THEN [edge |-> TRUE, reads |-> {}, raised |-> FALSE]
          ELSE LET p == GetPixel(px, ww, hh, nx, ny)
               IN IF p = IndexError
                  THEN [edge |-> FALSE, reads |-> {<<nx, ny>>}, raised |-> TRUE]
                  ELSE IF IsTransparent(p)
                  THEN [edge |-> TRUE, reads |-> {<<nx, ny>>}, raised |-> FALSE]
                  ELSE LET r == EdgeScan(px, ww, hh, x, y, k + 1)
                       IN [r EXCEPT !.reads = @ \cup {<<nx, ny>>}]

\* The value stored by `outline_pixels[x, y] = pixels[x, y]`, line 41.
CopyPixelOpaque(p) == <<p[1], p[2], p[3], 255>>
CopyPixel(p) == p

\* One iteration of the body of the loops, lines 31-41, at (x, y): the new
\* output pixels, the coordinates read from the source, and whether it raised.
LoopBodyInverted(px, out, ww, hh, x, y) ==
  IF IsTransparent(px[<<x, y>>])
  THEN [out |-> out, reads |-> {<<x, y>>}, raised |-> FALSE]
  ELSE LET r == EdgeScan(px, ww, hh, x, y, 1)
       IN [out    |-> IF ~r.edge /\ ~r.raised
                      THEN [out EXCEPT ![<<x, y>>] = CopyPixel(px[<<x, y>>])]
                      ELSE out,
           reads  |-> r.reads \cup {<<x, y>>},
           raised |-> r.raised]
LoopBodyInPlace(px, out, ww, hh, x, y) ==
  IF IsTransparent(px[<<x, y>>])
  THEN [out |-> out, reads |-> {<<x, y>>}, raised |-> FALSE]
  ELSE LET r == EdgeScan(out, ww, hh, x, y, 1)
       IN [out    |-> IF r.edge /\ ~r.raised
                      THEN [out EXCEPT ![<<x, y>>] = CopyPixel(px[<<x, y>>])]
                      ELSE out,
           reads  |-> r.reads \cup {<<x, y>>},
           raised |-> r.raised]
LoopBody(px, out, ww, hh, x, y) ==
  IF IsTransparent(px[<<x, y>>])
  THEN [out |-> out, reads |-> {<<x, y>>}, raised |-> FALSE]
  ELSE LET r == EdgeScan(px, ww, hh, x, y, 1)
       IN [out    |-> IF r.edge /\ ~r.raised
                      THEN [out EXCEPT ![<<x, y>>] = CopyPixel(px[<<x, y>>])]
                      ELSE out,
           reads  |-> r.reads \cup {<<x, y>>},
           raised |-> r.raised]

\* The coordinate of the n-th iteration (from 0) of
\* `for y in range(h): for x in range(w)`, lines 29-30.
RowMajor(n, ww) == <<n % ww, n \div ww>>

\* make_outline's pixel loop as a function of the decoded image: the output
\* pixels after the loops of lines 29-41 have run over a fresh output.
RECURSIVE PixelLoop(_, _, _, _, _)
PixelLoop(px, out, ww, hh, n) ==
  IF n >= ww * hh THEN out
  ELSE LET c == RowMajor(n, ww)
       IN PixelLoop(px, LoopBody(px, out, ww, hh, c[1], c[2]).out, ww, hh, n + 1)

extractOutline(px, ww, hh) == PixelLoop(px, NewImage(ww, hh, Transparent).px, ww, hh, 0)

----------------------------------------------------------------------------
(* State *)

\* pc: "open"     make_outline(COLORS[ci]) is about to load its image
\*     "loop"     inside the pixel loop
\*     "save"     the pixel loop is over, outline_img.save is next
\*     "returned" make_outline returned
\*     "done"     the driver loop is over
\*     "aborted"  an exception (exc) left the program
Init ==
  /\ ci = 1
  /\ pc = "open"
  /\ exc = "none"
  /\ w = 0 /\ h = 0 /\ pixels = <<>>
  /\ ow = 0 /\ oh = 0 /\ outline_pixels = <<>>
  /\ visited = {}
  /\ reads = {}
  /\ opened = <<>>
  /\ loaded = <<>>
  /\ saved = <<>>

\* Lines 24-28: the file decodes and converts to some RGBA image of
\* the families fams; the output
\* image is created transparent with the same size.
Open(fams) ==
  /\ pc = "open"
  /\ \E fam \in fams : \E d \in Sizes(fam) : \E px \in [Coords(d[1], d[2]) -> fam.pal] :
       LET o == NewImage(d[1], d[2], Transparent)
       IN /\ w' = d[1] /\ h' = d[2] /\ pixels' = px
          /\ ow' = o.w /\ oh' = o.h /\ outline_pixels' = o.px
          /\ pc' = IF Coords(d[1], d[2]) = {} THEN "save" ELSE "loop"
  /\ opened' = Append(opened, COLORS[ci])
  /\ loaded' = Append(loaded, COLORS[ci])
  /\ visited' = {}
  /\ reads' = {}
  /\ UNCHANGED <<ci, exc, saved>>

\* Line 24 raises: the file is missing or does not decode.
OpenFail ==
  /\ pc = "open"
  /\ opened' = Append(opened, COLORS[ci])
  /\ pc' = "aborted"
  /\ exc' = "load"
  /\ UNCHANGED <<ci, w, h, pixels, ow, oh, outline_pixels, visited, reads, loaded, saved>>

\* One iteration of lines 31-41 at coordinate c.
Visit(c) ==
  /\ pc = "loop"
  /\ c \in Coords(w, h) \ visited
  /\ LET r == LoopBody(pixels, outline_pixels, w, h, c[1], c[2])
     IN /\ reads' = reads \cup r.reads
        /\ IF r.raised
           THEN /\ pc' = "aborted"
                /\ exc' = "index"
                /\ UNCHANGED <<outline_pixels, visited>>
           ELSE /\ outline_pixels' = r.out
                /\ visited' = visited \cup {c}
                /\ pc' = IF visited' = Coords(w, h) THEN "save" ELSE "loop"
                /\ UNCHANGED exc
  /\ UNCHANGED <<ci, w, h, pixels, ow, oh, opened, loaded, saved>>

\* The loops of lines 29-30 visit the coordinates in row-major order.
PixelStep == pc = "loop" /\ Visit(RowMajor(Cardinality(visited), w))

\* The same body applied to the coordinates in an arbitrary order.
AnyOrderStep == \E c \in Coords(w, h) \ visited : Visit(c)

\* Lines 42-43: the outline is written and make_outline returns.
Save ==
  /\ pc = "save"
  /\ saved' = Append(saved, COLORS[ci])
  /\ pc' = "returned"
  /\ UNCHANGED <<ci, exc, w, h, pixels, ow, oh, outline_pixels, visited, reads, opened, loaded>>

\* Line 42 raises: the output path cannot be written.
SaveFail ==
  /\ pc = "save"
  /\ pc' = "aborted"
  /\ exc' = "save"
  /\ UNCHANGED <<ci, w, h, pixels, ow, oh, outline_pixels, visited, reads, opened, loaded, saved>>

\* Lines 47-48: the driver calls make_outline for the next colour; the
\* locals of the call that returned are gone.
NextColorAfterAbort ==
  /\ pc \in {"returned", "aborted"}
  /\ ci < Len(COLORS)
  /\ ci' = ci + 1
  /\ pc' = "open"
  /\ w' = 0 /\ h' = 0 /\ pixels' = <<>>
  /\ ow' = 0 /\ oh' = 0 /\ outline_pixels' = <<>>
  /\ visited' = {}
  /\ reads' = {}
  /\ UNCHANGED <<exc, opened, loaded, saved>>
NextColor ==
  /\ pc = "returned"
  /\ ci < Len(COLORS)
  /\ ci' = ci + 1
  /\ pc' = "open"
  /\ w' = 0 /\ h' = 0 /\ pixels' = <<>>
  /\ ow' = 0 /\ oh' = 0 /\ outline_pixels' = <<>>
  /\ visited' = {}
  /\ reads' = {}
  /\ UNCHANGED <<exc, opened, loaded, saved>>

\* Line 47: the list is exhausted.
Finish ==
  /\ pc = "returned"
  /\ ci = Len(COLORS)
  /\ pc' = "done"
  /\ UNCHANGED <<ci, exc, w, h, pixels, ow, oh, outline_pixels, visited, reads, opened, loaded, saved>>

\* One call make_outline(COLORS[1]) on an arbitrary input image.
Next == Open(InputImages) \/ OpenFail \/ PixelStep \/ Save \/ SaveFail
Spec == Init /\ [][Next]_vars

\* The whole driver run over COLORS.
NextDriver ==
  Open(DriverImages) \/ OpenFail \/ PixelStep \/ Save \/ SaveFail \/ NextColor \/ Finish
SpecDriver == Init /\ [][NextDriver]_vars

\* One call of make_outline whose loop visits the coordinates in any order.
NextAnyOrder == Open(ShapeImages) \/ OpenFail \/ AnyOrderStep \/ Save \/ SaveFail
SpecAnyOrder == Init /\ [][NextAnyOrder]_vars

----------------------------------------------------------------------------
(* Vocabulary of the properties *)

\* The pixel loop of the current call has finished.
LoopDone == pc \in {"save", "returned"} \/ (pc = "aborted" /\ exc = "save")

\* The output image of the current call exists.
HasOutline == pc \in {"loop", "save", "returned"} \/ (pc = "aborted" /\ exc \in {"save", "index"})

NonTransparent(px) == { c \in DOMAIN px : px[c][4] # 0 }

\* The four direct neighbours of c, written out.
Direct4(c) == { <<c[1] - 1, c[2]>>, <<c[1] + 1, c[2]>>, <<c[1], c[2] - 1>>, <<c[1], c[2] + 1>> }
Diagonal4(c) == { <<c[1] - 1, c[2] - 1>>, <<c[1] + 1, c[2] - 1>>,
                  <<c[1] - 1, c[2] + 1>>, <<c[1] + 1, c[2] + 1>> }

\* c is a boundary pixel of the source in the sense of the specification.
IsBoundary(c) ==
  /\ pixels[c][4] # 0
  /\ \E n \in Direct4(c) : n \notin Coords(w, h) \/ pixels[n][4] = 0

TypeOK ==
  /\ ci \in 1 .. Len(COLORS)
  /\ pc \in {"open", "loop", "save", "returned", "done", "aborted"}
  /\ exc \in {"none", "load", "save", "index"}
  /\ w \in Nat /\ h \in Nat /\ ow \in Nat /\ oh \in Nat
  /\ visited \subseteq Coords(w, h)

----------------------------------------------------------------------------
(* Properties *)

Visible(c) == pixels[c][4] # 0

\* The source shape is thicker than one pixel: it holds a 2 x 2 block of
\* visible pixels.
Thick ==
  \E c \in Coords(w, h) :
    \A n \in { c, <<c[1] + 1, c[2]>>, <<c[1], c[2] + 1>>, <<c[1] + 1, c[2] + 1>> } :
      n \in Coords(w, h) /\ Visible(n)

\* The source is a solid rectangle: every pixel is visible.
Solid == \A c \in Coords(w, h) : Visible(c)

\* The outermost ring of the image.
Ring == { c \in Coords(w, h) : c[1] = 0 \/ c[1] = w - 1 \/ c[2] = 0 \/ c[2] = h - 1 }

\* The output of a second extraction, run on the output of the first.
Reextracted == extractOutline(outline_pixels, ow, oh)

\* C1: once the pixel loop has finished, the output pixel at every coordinate
\* is the source pixel when the source pixel is visible and one of its four
\* direct neighbours is outside the image or transparent, and (0,0,0,0) in
\* every other case; the diagonal neighbours play no part.
C1_OutputIsBoundaryCopy ==
  LoopDone =>
    \A c \in Coords(w, h) :
      outline_pixels[c] = IF IsBoundary(c) THEN pixels[c] ELSE Transparent

\* A finished extraction that copied a boundary pixel and left blank a
\* visible pixel whose direct neighbours are all visible while one of its
\* diagonal neighbours is transparent.
C1_Witness ==
  /\ pc = "save"
  /\ \E c \in Coords(w, h) : IsBoundary(c) /\ outline_pixels[c] = pixels[c]
  /\ \E c \in Coords(w, h) :
       /\ Visible(c) /\ ~IsBoundary(c)
       /\ \E d \in Diagonal4(c) : d \in Coords(w, h) /\ ~Visible(d)
       /\ outline_pixels[c] = Transparent

\* C2: in every state from the creation of the output image to the save,
\* each output pixel is (0,0,0,0) or exactly the source pixel at the same
\* coordinate.
C2_BlankOrSourcePixel ==
  HasOutline =>
    \A c \in Coords(w, h) :
      outline_pixels[c] = Transparent \/ outline_pixels[c] = pixels[c]

\* The middle of a pixel loop: a partially opaque pixel has been copied and
\* another coordinate is still to be visited.
C2_Witness ==
  /\ pc = "loop"
  /\ visited # Coords(w, h)
  /\ \E c \in visited : pixels[c] = OP /\ outline_pixels[c] = OP

\* C3: a coordinate whose source alpha is 0 has output (0,0,0,0), whatever
\* its colour channels; the visible output coordinates are a subset of the
\* visible source coordinates; a fully transparent source gives a fully
\* transparent output.
C3_TransparencyPreserved ==
  HasOutline =>
    /\ \A c \in Coords(w, h) : pixels[c][4] = 0 => outline_pixels[c] = Transparent
    /\ NonTransparent(outline_pixels) \subseteq NonTransparent(pixels)
    /\ (NonTransparent(pixels) = {} =>
          \A c \in Coords(w, h) : outline_pixels[c] = Transparent)

\* A finished extraction of a fully transparent, non-empty source one of
\* whose pixels carries colour.
C3_Witness ==
  /\ pc = "save"
  /\ Coords(w, h) # {}
  /\ NonTransparent(pixels) = {}
  /\ \E c \in Coords(w, h) : pixels[c] = TC /\ outline_pixels[c] = Transparent

\* C4 (as stated): for a source whose shape is thicker than 1px, the visible
\* coordinates of the second extraction are a strict subset of those of the
\* first.
C4_ReextractStrictlySmaller ==
  (LoopDone /\ Thick) =>
    /\ NonTransparent(Reextracted) \subseteq NonTransparent(outline_pixels)
    /\ NonTransparent(Reextracted) # NonTransparent(outline_pixels)

\* C4 (amended): for a source whose shape is thicker than 1px, the visible
\* coordinates of the second extraction are exactly those of the first.
C4_ReextractSameSet ==
  (LoopDone /\ Thick) =>
    NonTransparent(Reextracted) = NonTransparent(outline_pixels)

\* A finished extraction of a thick shape that dropped an interior pixel.
C4_Witness ==
  /\ pc = "save"
  /\ Thick
  /\ \E c \in Coords(w, h) : Visible(c) /\ outline_pixels[c] = Transparent

\* C5: the extraction never raises on an index and never indexes the source
\* outside the image; a visible pixel with a neighbour outside the image is
\* classified as boundary.
C5_NoOutOfBoundsRead ==
  /\ exc # "index"
  /\ reads \subseteq Coords(w, h)
  /\ \A c \in visited :
       (Visible(c) /\ \E n \in Direct4(c) : n \notin Coords(w, h))
         => outline_pixels[c] = pixels[c]

\* A visited visible pixel in the last column whose left neighbour is
\* visible, so that the scan went on to the neighbour outside the image.
C5_Witness ==
  \E c \in visited :
    /\ c[1] = w - 1 /\ c[1] > 0
    /\ Visible(c) /\ Visible(<<c[1] - 1, c[2]>>)
    /\ <<c[1] - 1, c[2]>> \in reads
    /\ outline_pixels[c] = pixels[c]

\* C6: for a solid rectangle of at least 3 x 3 pixels, the visible output
\* coordinates are exactly the outermost ring and every interior coordinate
\* is transparent.
C6_SolidRectangleRing ==
  (LoopDone /\ Solid /\ w >= 3 /\ h >= 3) =>
    /\ NonTransparent(outline_pixels) = Ring
    /\ \A c \in Coords(w, h) :
         (0 < c[1] /\ c[1] < w - 1 /\ 0 < c[2] /\ c[2] < h - 1)
           => outline_pixels[c] = Transparent

\* A finished extraction of a solid rectangle wider than it is high.
C6_Witness ==
  /\ pc = "save"
  /\ Solid /\ w > h /\ h >= 3
  /\ outline_pixels[<<1, 1>>] = Transparent
  /\ outline_pixels[<<1, 0>>] = pixels[<<1, 0>>]

\* C7: whatever the order in which the coordinates are visited, every
\* visited coordinate holds the pixel the row-major loop of the code gives
\* it and every other coordinate is still blank, so the finished output is
\* the output of the row-major loop.
C7_OrderIndependent ==
  HasOutline =>
    LET final == extractOutline(pixels, w, h)
    IN \A c \in Coords(w, h) :
         outline_pixels[c] = IF c \in visited THEN final[c] ELSE Transparent

\* A loop that visited the last coordinate before the first, and copied it.
C7_Witness ==
  /\ pc = "loop"
  /\ <<w - 1, h - 1>> \in visited
  /\ <<0, 0>> \notin visited
  /\ outline_pixels[<<w - 1, h - 1>>] # Transparent

\* C8: the output image has the width and height of the source; for a 0 x 0
\* source the loop body never runs and an empty output is produced.
C8_DimensionsPreserved ==
  /\ HasOutline =>
       /\ ow = w /\ oh = h
       /\ DOMAIN outline_pixels = Coords(w, h)
  /\ (LoopDone /\ w = 0 /\ h = 0) =>
       /\ visited = {} /\ reads = {}
       /\ outline_pixels = <<>>
  /\ exc # "index"

\* The outline of a 0 x 0 source has been saved.
C8_Witness ==
  /\ pc = "returned"
  /\ loaded = <<COLORS[ci]>>
  /\ w = 0 /\ h = 0
  /\ saved = <<COLORS[ci]>>

\* C9: the driver loads, extracts and saves the colours in list order, one
\* to completion before the next; after a load failure the program is
\* aborted for good, the failing colour was neither extracted nor saved, no
\* later colour was touched and the earlier outlines are all saved.
C9_LoadFailureAborts ==
  /\ opened = SubSeq(COLORS, 1, Len(opened))
  /\ loaded = SubSeq(COLORS, 1, Len(loaded))
  /\ saved = SubSeq(COLORS, 1, Len(saved))
  /\ Len(saved) <= Len(loaded)
  /\ Len(loaded) <= Len(opened)
  /\ Len(opened) <= Len(saved) + 1
  /\ pc \in {"open", "returned"} => Len(opened) = Len(saved)
  /\ exc = "load" =>
       /\ pc = "aborted"
       /\ opened = SubSeq(COLORS, 1, ci)
       /\ loaded = SubSeq(COLORS, 1, ci - 1)
       /\ saved = SubSeq(COLORS, 1, ci - 1)

\* The load of the third colour failed after two outlines were saved.
C9_Witness ==
  /\ exc = "load"
  /\ pc = "aborted"
  /\ ci = 3
  /\ saved = <<"blue", "green">>

\* C10: a second extraction changes nothing: the outline of the output is
\* the output, pixel for pixel, and every pixel the first pass kept still has
\* a direct neighbour that is outside the image or transparent in the output.
C10_Idempotent ==
  LoopDone =>
    /\ Reextracted = outline_pixels
    /\ \A c \in NonTransparent(outline_pixels) :
         \E n \in Direct4(c) : n \notin Coords(w, h) \/ outline_pixels[n][4] = 0

\* A finished extraction that kept some pixels and dropped others.
C10_Witness ==
  /\ pc = "save"
  /\ NonTransparent(outline_pixels) # {}
  /\ NonTransparent(outline_pixels) # NonTransparent(pixels)

====
